---------------------------- MODULE Spec2Model ----------------------------
(***************************************************************************)
(* A model of dump/hsmapi.c: the DMF attribute codec, the per-file HSM     *)
(* context and the routines that make a dual-residency file look offline.  *)
(*                                                                         *)
(* Representation.                                                         *)
(*  - A u_int64_t is a sequence of 8 bytes, most significant first, so     *)
(*    that shifts and masks keep their 64-bit width.                       *)
(*  - An off64_t file size is an integer 0 <= n < 2^31.                    *)
(*  - attrval[] is modelled by its first MaxAttrLen bytes; nothing in the  *)
(*    code reads or writes beyond the length of the fetched value or       *)
(*    beyond MIN_FORMAT1_ATTR_LEN.                                         *)
(*  - bs_mode & S_IFMT is the file type; bs_xflags and bs_dmevmask are     *)
(*    the sets of the bits that are set.                                   *)
(*  - An output parameter is <<>> while unwritten and <<v>> once written.  *)
(***************************************************************************)
EXTENDS Integers, Sequences, FiniteSets, TLC

VARIABLES
    fsctx,      \* the dmf_fs_ctxt_t made by HsmInitFsysContext
    ctx,        \* the dmf_f_ctxt_t of the dump stream
    last,       \* the last call: its name, its arguments, what it returned
    fetched,    \* the attribute value HsmInitFileContext last fetched into ctx
    repeat,     \* the last call was made with the inputs of the call before it
    codec       \* the operands and results of the last msb_store/msb_load pair

vars == <<fsctx, ctx, fetched, last, repeat, codec>>

---------------------------------------------------------------------------
(* Bounds of the model *)

\* the longest attribute value the attribute fetch can return in the model
MaxAttrLen == 49

\* the largest cursor HsmAddNewAttribute is called with
MaxCursor == 2

\* the largest block offset bmap[1] reports to HsmModifyExtentMap
MaxBmvOffset == 3

---------------------------------------------------------------------------
(* Program constants *)

DMF_ATTR_NAME == "SGI_DMI_DMFATTR"
NULL == "NULL"

SizeofXFSattrvalue0 == 1 + 1 + 2 + 2 + 16
SizeofXFSattrregion == 8 + 8 + 2 + 1 + 1
SizeofXFSattrvalue1 == 1 + 1 + 2 + 2 + 16 + 4 + 2
MIN_FORMAT1_ATTR_LEN == SizeofXFSattrvalue1 + SizeofXFSattrregion
SizeofAttrval == 5000

FSYS_TYPE_XFS == 1
DMF_ATTR_FORMAT_0 == 0
DMF_ATTR_FORMAT_1 == 1

DMF_ST_DUALSTATE == 2
DMF_ST_OFFLINE == 3
DMF_ST_UNMIGRATING == 4
DMF_ST_PARTIAL == 6

DMF_EV_BITS ==
    {"DM_EVENT_DESTROY", "DM_EVENT_READ", "DM_EVENT_WRITE", "DM_EVENT_TRUNCATE"}

DMF_MR_FLAGS == 1 + 2 + 4

\* basic block size of BTOBB: 1 << BBSHIFT bytes
BBSHIFT == 9
BBSIZE == 2 ^ BBSHIFT

\* offsets (1-based) of the fields of XFSattrvalue1_t and of the
\* XFSattrregion_t that follows it
OffFsys == 1
OffVersion == 2
OffState == 3
OffSitetag == 1 + 1 + 2 + 2 + 16 + 1
OffRegcnt == OffSitetag + 4
OffRgOffset == SizeofXFSattrvalue1 + 1
OffRgSize == OffRgOffset + 8
OffRgState == OffRgSize + 8
OffRgFlags == OffRgState + 2
OffRgFbits == OffRgFlags + 1

---------------------------------------------------------------------------
(* 64-bit unsigned values *)

U64Zero == <<0, 0, 0, 0, 0, 0, 0, 0>>

\* (u_int64_t)n for an integer 0 <= n < 2^31
ToU64(n) == [i \in 1 .. 8 |-> IF i <= 4 THEN 0 ELSE (n \div (256 ^ (8 - i))) % 256]

\* src & 0xff
LowByte(src) == src[8]

\* src >> 8
Shr8(src) == <<0>> \o SubSeq(src, 1, 7)

\* (tmp << 8) | b
Shl8Or(tmp, b) == SubSeq(tmp, 2, 8) \o <<b>>

\* (int)v
IntCast(v) ==
    LET low == v[6] * 65536 + v[7] * 256 + v[8]
    IN  IF v[5] < 128 THEN v[5] * 16777216 + low
        ELSE (v[5] - 256) * 16777216 + low

---------------------------------------------------------------------------
(* msb_store, msb_load *)

RECURSIVE StoreLoop(_, _, _)
StoreLoop(dest, src, i) ==
    IF i >= 0
    THEN StoreLoop([dest EXCEPT ![i + 1] = LowByte(src)], Shr8(src), i - 1)
    ELSE dest

\* a plausible slip: the loop runs upwards, least significant byte first
msb_store_lsb(src, length) ==
    [k \in 1 .. length |-> src[9 - k]]

\* the `length' bytes msb_store leaves in dest
msb_store(src, length) ==
    StoreLoop([k \in 1 .. length |-> 0], src, length - 1)

RECURSIVE LoadLoop(_, _, _, _)
LoadLoop(tmp, src, i, length) ==
    IF i < length
    THEN LoadLoop(Shl8Or(tmp, src[i + 1]), src, i + 1, length)
    ELSE tmp

msb_load(src, length) == LoadLoop(U64Zero, src, 0, length)

\* dest with bytes written from 1-based position off
Poke(buf, off, bytes) ==
    [k \in 1 .. Len(buf) |->
        IF k >= off /\ k < off + Len(bytes) THEN bytes[k - off + 1] ELSE buf[k]]

\* the `length' bytes of buf from 1-based position off
Peek(buf, off, length) == SubSeq(buf, off, off + length - 1)


---------------------------------------------------------------------------
(* The inputs: bulkstat records, collaborator answers, attribute values *)

\* xfs_bstat_t: the fields the routines read
Stats ==
    [bs_mode : {"S_IFREG", "S_IFDIR"},
     bs_xflags : {{}, {"XFS_XFLAG_HASATTR"}},
     bs_dmevmask : {{}, {"DM_EVENT_ATTRIBUTE"}, {"DM_EVENT_ATTRIBUTE", "DM_EVENT_READ"}},
     bs_size : {0, 513, 16778240}]

\* a stored DMF attribute: header, site tag, region count, one region, padding
FullAttr(fsys, version, state, sitetag) ==
    <<fsys, version, state \div 256, state % 256, 18, 52>>
    \o [k \in 1 .. 16 |-> 160 + k]
    \o <<sitetag, 0, 0, 0>>
    \o <<0, 2>>
    \o [k \in 1 .. SizeofXFSattrregion |-> 200 + k]
    \o [k \in 1 .. MaxAttrLen - MIN_FORMAT1_ATTR_LEN |-> 77]

AttrLens ==
    {0, SizeofXFSattrvalue0 - 1, SizeofXFSattrvalue0, SizeofXFSattrvalue0 + 1,
     MIN_FORMAT1_ATTR_LEN - 1, MIN_FORMAT1_ATTR_LEN, MaxAttrLen}

\* the values the filesystem may hold under DMF_ATTR_NAME
AttrValues ==
    {SubSeq(FullAttr(f, v, s, t), 1, n) :
        <<f, v, s, t, n>> \in
            {x \in {FSYS_TYPE_XFS, 2} \X {DMF_ATTR_FORMAT_0, DMF_ATTR_FORMAT_1, 2}
                   \X {DMF_ST_DUALSTATE, DMF_ST_OFFLINE, DMF_ST_UNMIGRATING, 5,
                       DMF_ST_PARTIAL, 258}
                   \X {0, 9} \X AttrLens :
                x[4] = 0 \/ (x[5] >= OffSitetag /\ x[2] = DMF_ATTR_FORMAT_1)}}

\* dm_make_handle: 0, or -1 on failure
HandleResults == {0, -1}

\* attr_multi_by_handle with ATTR_OP_GET: its return value, am_error, and the
\* value stored in the caller's buffer (only when both are 0)
FetchAnswers ==
    {[error |-> -1, am_error |-> 0, value |-> <<>>],
     [error |-> 0, am_error |-> 61, value |-> <<>>]}
    \cup {[error |-> 0, am_error |-> 0, value |-> v] :
            v \in {w \in AttrValues : Len(w) <= SizeofAttrval}}

\* the answer recorded for a collaborator that was not called
NotCalled == [error |-> 0, am_error |-> 0, value |-> <<>>]

\* what malloc'ed or stack memory may hold in the fields nobody initialised
Garbage ==
    {[filesize |-> 0, attrlen |-> 0, attrval |-> [k \in 1 .. MaxAttrLen |-> 0]],
     [filesize |-> 513, attrlen |-> MIN_FORMAT1_ATTR_LEN,
      attrval |-> FullAttr(FSYS_TYPE_XFS, DMF_ATTR_FORMAT_1, DMF_ST_OFFLINE, 9)]}

FsIds == {"fsidA", "fsidB"}

---------------------------------------------------------------------------
(* The routines *)

\* HsmInitFsysContext, when it succeeds
HsmInitFsysContext(fsid) ==
    [dumpversion |-> "HSM_API_VERSION_1", fsid |-> fsid]

\* BTOBB(bytes): bytes rounded up to basic blocks
BTOBB(bytes) == (bytes + BBSIZE - 1) \div (2 ^ BBSHIFT)

\* a plausible slip: the has-attributes test is left out
HsmEstimateFileSpace_noattrcheck(statp) ==
    IF statp.bs_mode # "S_IFREG" THEN [ret |-> 0, bytes |-> <<>>, calls |-> <<>>]
    ELSE IF statp.bs_dmevmask \cap DMF_EV_BITS = {}
         THEN [ret |-> 0, bytes |-> <<>>, calls |-> <<>>]
    ELSE [ret |-> 1, bytes |-> <<0>>, calls |-> <<>>]

\* HsmEstimateFileSpace: its return value, *bytes, and the collaborator
\* calls it made (it makes none)
HsmEstimateFileSpace(statp) ==
    IF statp.bs_mode # "S_IFREG" THEN [ret |-> 0, bytes |-> <<>>, calls |-> <<>>]
    ELSE IF "XFS_XFLAG_HASATTR" \notin statp.bs_xflags
         THEN [ret |-> 0, bytes |-> <<>>, calls |-> <<>>]
    ELSE IF statp.bs_dmevmask \cap DMF_EV_BITS = {}
         THEN [ret |-> 0, bytes |-> <<>>, calls |-> <<>>]
    ELSE [ret |-> 1, bytes |-> <<0>>, calls |-> <<>>]

\* HsmAllocateFileContext, when malloc succeeds
HsmAllocateFileContext(fs, g) ==
    [fsys |-> fs, filesize |-> g.filesize, candidate |-> 0,
     attrlen |-> g.attrlen, attrval |-> g.attrval]

\* the tail of HsmInitFileContext, from the successful fetch on
InitFromAttr(c, statp) ==
    LET fsys == c.attrval[OffFsys]
        version == c.attrval[OffVersion]
        state == IntCast(msb_load(Peek(c.attrval, OffState, 2), 2))
    IN  IF fsys # FSYS_TYPE_XFS THEN c
        ELSE IF version = DMF_ATTR_FORMAT_0 /\ c.attrlen # SizeofXFSattrvalue0 THEN c
        ELSE IF version = DMF_ATTR_FORMAT_1 /\ c.attrlen < MIN_FORMAT1_ATTR_LEN THEN c
        ELSE IF version \notin {DMF_ATTR_FORMAT_0, DMF_ATTR_FORMAT_1} THEN c
        ELSE IF state \in {DMF_ST_DUALSTATE, DMF_ST_UNMIGRATING,
                           DMF_ST_PARTIAL, DMF_ST_OFFLINE}
             THEN [c EXCEPT !.candidate = 1, !.filesize = statp.bs_size]
             ELSE c

HandleCall(c, hres) == [fn |-> "dm_make_handle", fsid |-> c.fsys.fsid, res |-> hres]
FetchCall(fres) == [fn |-> "attr_multi_by_handle", res |-> fres]

\* a plausible slip: the context is not reset before the quick tests
HsmInitFileContext_noreset(c, statp, hres, fres) ==
    IF statp.bs_mode # "S_IFREG" THEN [ctx |-> c, ret |-> 0, calls |-> <<>>]
    ELSE IF "XFS_XFLAG_HASATTR" \notin statp.bs_xflags
         THEN [ctx |-> c, ret |-> 0, calls |-> <<>>]
    ELSE IF statp.bs_dmevmask \cap DMF_EV_BITS = {}
         THEN [ctx |-> c, ret |-> 0, calls |-> <<>>]
    ELSE IF hres # 0
         THEN [ctx |-> c, ret |-> 0, calls |-> <<HandleCall(c, hres)>>]
    ELSE IF fres.error # 0 \/ fres.am_error # 0
         THEN [ctx |-> c, ret |-> 0,
               calls |-> <<HandleCall(c, hres), FetchCall(fres)>>]
    ELSE [ctx |-> InitFromAttr([c EXCEPT !.candidate = 0,
                                         !.attrlen = Len(fres.value),
                                         !.attrval = Poke(@, 1, fres.value)], statp),
          ret |-> 0,
          calls |-> <<HandleCall(c, hres), FetchCall(fres)>>]

\* a plausible slip: the attribute is looked up before the event-mask test
HsmInitFileContext_eagerfetch(c, statp, hres, fres) ==
    LET c0 == [c EXCEPT !.candidate = 0]
    IN  IF statp.bs_mode # "S_IFREG" THEN [ctx |-> c0, ret |-> 0, calls |-> <<>>]
        ELSE IF "XFS_XFLAG_HASATTR" \notin statp.bs_xflags
             THEN [ctx |-> c0, ret |-> 0, calls |-> <<>>]
        ELSE IF hres # 0
             THEN [ctx |-> c0, ret |-> 0, calls |-> <<HandleCall(c, hres)>>]
        ELSE IF fres.error # 0 \/ fres.am_error # 0
             THEN [ctx |-> c0, ret |-> 0,
                   calls |-> <<HandleCall(c, hres), FetchCall(fres)>>]
        ELSE IF statp.bs_dmevmask \cap DMF_EV_BITS = {}
             THEN [ctx |-> [c0 EXCEPT !.attrlen = Len(fres.value),
                                      !.attrval = Poke(@, 1, fres.value)],
                   ret |-> 0,
                   calls |-> <<HandleCall(c, hres), FetchCall(fres)>>]
        ELSE [ctx |-> InitFromAttr([c0 EXCEPT !.attrlen = Len(fres.value),
                                              !.attrval = Poke(@, 1, fres.value)],
                                   statp),
              ret |-> 0,
              calls |-> <<HandleCall(c, hres), FetchCall(fres)>>]

\* a variant that clears the per-file fields before the quick tests
HsmInitFileContext_clear(c, statp, hres, fres) ==
    LET c0 == [c EXCEPT !.candidate = 0, !.filesize = 0, !.attrlen = 0]
    IN  IF statp.bs_mode # "S_IFREG" THEN [ctx |-> c0, ret |-> 0, calls |-> <<>>]
        ELSE IF "XFS_XFLAG_HASATTR" \notin statp.bs_xflags
             THEN [ctx |-> c0, ret |-> 0, calls |-> <<>>]
        ELSE IF statp.bs_dmevmask \cap DMF_EV_BITS = {}
             THEN [ctx |-> c0, ret |-> 0, calls |-> <<>>]
        ELSE IF hres # 0
             THEN [ctx |-> c0, ret |-> 0, calls |-> <<HandleCall(c, hres)>>]
        ELSE IF fres.error # 0 \/ fres.am_error # 0
             THEN [ctx |-> c0, ret |-> 0,
                   calls |-> <<HandleCall(c, hres), FetchCall(fres)>>]
        ELSE [ctx |-> InitFromAttr([c0 EXCEPT !.attrlen = Len(fres.value),
                                              !.attrval = Poke(@, 1, fres.value)],
                                   statp),
              ret |-> 0,
              calls |-> <<HandleCall(c, hres), FetchCall(fres)>>]

\* HsmInitFileContext: the context it leaves, its return value and the
\* collaborator calls it made, in order.  hres and fres are the answers the
\* collaborators give if they are called.
HsmInitFileContext(c, statp, hres, fres) ==
    LET c0 == [c EXCEPT !.candidate = 0]
    IN  IF statp.bs_mode # "S_IFREG" THEN [ctx |-> c0, ret |-> 0, calls |-> <<>>]
        ELSE IF "XFS_XFLAG_HASATTR" \notin statp.bs_xflags
             THEN [ctx |-> c0, ret |-> 0, calls |-> <<>>]
        ELSE IF statp.bs_dmevmask \cap DMF_EV_BITS = {}
             THEN [ctx |-> c0, ret |-> 0, calls |-> <<>>]
        ELSE IF hres # 0
             THEN [ctx |-> c0, ret |-> 0, calls |-> <<HandleCall(c, hres)>>]
        ELSE IF fres.error # 0 \/ fres.am_error # 0
             THEN [ctx |-> c0, ret |-> 0,
                   calls |-> <<HandleCall(c, hres), FetchCall(fres)>>]
        ELSE [ctx |-> InitFromAttr([c0 EXCEPT !.attrlen = Len(fres.value),
                                              !.attrval = Poke(@, 1, fres.value)],
                                   statp),
              ret |-> 0,
              calls |-> <<HandleCall(c, hres), FetchCall(fres)>>]


\* a plausible slip: the estimate is the byte count asked for
HsmEstimateFileOffset_bytecount(fs, statp, bytecount, hres, fres, g) ==
    LET dmf_f_ctxt == [fsys |-> fs, filesize |-> g.filesize, candidate |-> 0,
                       attrlen |-> g.attrlen, attrval |-> g.attrval]
        r == HsmInitFileContext(dmf_f_ctxt, statp, hres, fres)
    IN  IF r.ret # 0 THEN [ret |-> 0, byteoffset |-> <<>>, calls |-> r.calls]
        ELSE IF r.ctx.candidate # 0
             THEN [ret |-> 1, byteoffset |-> <<bytecount>>, calls |-> r.calls]
             ELSE [ret |-> 0, byteoffset |-> <<>>, calls |-> r.calls]

\* HsmEstimateFileOffset: g is what the stack holds in the fields of the
\* local dmf_f_ctxt that the routine does not initialise
HsmEstimateFileOffset(fs, statp, bytecount, hres, fres, g) ==
    LET dmf_f_ctxt == [fsys |-> fs, filesize |-> g.filesize, candidate |-> 0,
                       attrlen |-> g.attrlen, attrval |-> g.attrval]
        r == HsmInitFileContext(dmf_f_ctxt, statp, hres, fres)
    IN  IF r.ret # 0 THEN [ret |-> 0, byteoffset |-> <<>>, calls |-> r.calls]
        ELSE IF r.ctx.candidate # 0
             THEN [ret |-> 1, byteoffset |-> <<statp.bs_size>>, calls |-> r.calls]
             ELSE [ret |-> 0, byteoffset |-> <<>>, calls |-> r.calls]

HsmModifyInode(c, statp) ==
    IF c.candidate # 0
    THEN [ret |-> 1, statp |-> [statp EXCEPT !.bs_dmevmask = DMF_EV_BITS]]
    ELSE [ret |-> 1, statp |-> statp]

\* a plausible slip: the length is computed from the byte count rounded down
HsmModifyExtentMap_floor(c, bmap) ==
    IF bmap.bmv_entries <= 0 THEN [ret |-> 1, bmap |-> bmap]
    ELSE IF c.candidate = 0 THEN [ret |-> 1, bmap |-> bmap]
    ELSE LET length == (c.filesize \div BBSIZE) - bmap.bmv_offset
         IN  IF length > 0
             THEN [ret |-> 1,
                   bmap |-> [bmap EXCEPT !.bmv_entries = 1, !.bmv_block = -1,
                                         !.bmv_length = length]]
             ELSE [ret |-> 1, bmap |-> [bmap EXCEPT !.bmv_entries = 0]]

\* HsmModifyExtentMap: bmap.bmv_entries is bmap[0].bmv_entries, the other
\* fields are those of bmap[1]
HsmModifyExtentMap(c, bmap) ==
    IF bmap.bmv_entries <= 0 THEN [ret |-> 1, bmap |-> bmap]
    ELSE IF c.candidate = 0 THEN [ret |-> 1, bmap |-> bmap]
    ELSE LET length == BTOBB(c.filesize) - bmap.bmv_offset
         IN  IF length > 0
             THEN [ret |-> 1,
                   bmap |-> [bmap EXCEPT !.bmv_entries = 1, !.bmv_block = -1,
                                         !.bmv_length = length]]
             ELSE [ret |-> 1, bmap |-> [bmap EXCEPT !.bmv_entries = 0]]

\* a plausible slip: the entry is marked for removal before its size is checked
HsmFilterExistingAttribute_skipfirst(c, namep, valuesz, flag) ==
    IF c.candidate = 0 THEN [ret |-> 1, skip_entry |-> 0]
    ELSE IF flag # "ATTR_ROOT" THEN [ret |-> 1, skip_entry |-> 0]
    ELSE IF namep # DMF_ATTR_NAME THEN [ret |-> 1, skip_entry |-> 0]
    ELSE IF valuesz < SizeofXFSattrvalue0 THEN [ret |-> 0, skip_entry |-> 1]
    ELSE [ret |-> 1, skip_entry |-> 1]

HsmFilterExistingAttribute(c, namep, valuesz, flag) ==
    IF c.candidate = 0 THEN [ret |-> 1, skip_entry |-> 0]
    ELSE IF flag # "ATTR_ROOT" THEN [ret |-> 1, skip_entry |-> 0]
    ELSE IF namep # DMF_ATTR_NAME THEN [ret |-> 1, skip_entry |-> 0]
    ELSE IF valuesz < SizeofXFSattrvalue0 THEN [ret |-> 0, skip_entry |-> 0]
    ELSE [ret |-> 1, skip_entry |-> 1]

\* the format-1 branch of HsmAddNewAttribute: one offline region, whole file
AddFormat1(c) ==
    [c EXCEPT
        !.attrlen = MIN_FORMAT1_ATTR_LEN,
        !.attrval =
            Poke(Poke(Poke(Poke(Poke(Poke(@,
                OffRegcnt, msb_store(ToU64(1), 2)),
                OffRgOffset, msb_store(ToU64(0), 8)),
                OffRgSize, msb_store(ToU64(c.filesize), 8)),
                OffRgState, msb_store(ToU64(DMF_ST_OFFLINE), 2)),
                OffRgFlags, <<DMF_MR_FLAGS>>),
                OffRgFbits, <<0>>)]

\* the format-0 branch of HsmAddNewAttribute
AddFormat0(c) ==
    [c EXCEPT !.attrlen = SizeofXFSattrvalue0,
              !.attrval = Poke(@, OffVersion, <<DMF_ATTR_FORMAT_0>>)]

\* the outputs of HsmAddNewAttribute when it adds the attribute held in c
AddResult(c) ==
    [ctx |-> c, ret |-> 1, namepp |-> DMF_ATTR_NAME,
     value |-> SubSeq(c.attrval, 1, c.attrlen), valueszp |-> <<c.attrlen>>]

\* the outputs of HsmAddNewAttribute when it has nothing to add
AddNothing(c) ==
    [ctx |-> c, ret |-> 1, namepp |-> NULL, value |-> <<>>, valueszp |-> <<>>]

SetGlobalOffline(c) ==
    [c EXCEPT !.attrval = Poke(@, OffState, msb_store(ToU64(DMF_ST_OFFLINE), 2))]

\* a plausible slip: the global state of the fetched attribute is passed on
HsmAddNewAttribute_keepstate(c, cursor, flag) ==
    IF c.candidate = 0 THEN AddNothing(c)
    ELSE IF flag # "ATTR_ROOT" THEN AddNothing(c)
    ELSE IF cursor > 0 THEN AddNothing(c)
    ELSE IF c.attrval[OffVersion] = DMF_ATTR_FORMAT_1
            /\ msb_load(Peek(c.attrval, OffSitetag, 4), 4) # U64Zero
         THEN AddResult(AddFormat1(c))
         ELSE AddResult(AddFormat0(c))

\* a plausible slip: the cursor test lets the second request through
HsmAddNewAttribute_cursor1(c, cursor, flag) ==
    IF c.candidate = 0 THEN AddNothing(c)
    ELSE IF flag # "ATTR_ROOT" THEN AddNothing(c)
    ELSE IF cursor > 1 THEN AddNothing(c)
    ELSE IF c.attrval[OffVersion] = DMF_ATTR_FORMAT_1
            /\ msb_load(Peek(c.attrval, OffSitetag, 4), 4) # U64Zero
         THEN AddResult(SetGlobalOffline(AddFormat1(c)))
         ELSE AddResult(SetGlobalOffline(AddFormat0(c)))

\* a plausible slip: *valueszp is taken from attrlen before the branch
\* that sets attrlen has run
AddResultOldLen(old, c) ==
    [AddResult(c) EXCEPT !.value = SubSeq(c.attrval, 1, old.attrlen),
                         !.valueszp = <<old.attrlen>>]

HsmAddNewAttribute_oldlen(c, cursor, flag) ==
    IF c.candidate = 0 THEN AddNothing(c)
    ELSE IF flag # "ATTR_ROOT" THEN AddNothing(c)
    ELSE IF cursor > 0 THEN AddNothing(c)
    ELSE IF c.attrval[OffVersion] = DMF_ATTR_FORMAT_1
            /\ msb_load(Peek(c.attrval, OffSitetag, 4), 4) # U64Zero
         THEN AddResultOldLen(c, SetGlobalOffline(AddFormat1(c)))
         ELSE AddResultOldLen(c, SetGlobalOffline(AddFormat0(c)))

\* a plausible slip: the context is marked done once its attribute is handed out
HsmAddNewAttribute_consume(c, cursor, flag) ==
    IF c.candidate = 0 THEN AddNothing(c)
    ELSE IF flag # "ATTR_ROOT" THEN AddNothing(c)
    ELSE IF cursor > 0 THEN AddNothing(c)
    ELSE IF c.attrval[OffVersion] = DMF_ATTR_FORMAT_1
            /\ msb_load(Peek(c.attrval, OffSitetag, 4), 4) # U64Zero
         THEN [AddResult(SetGlobalOffline(AddFormat1(c)))
                  EXCEPT !.ctx.candidate = 0]
         ELSE [AddResult(SetGlobalOffline(AddFormat0(c)))
                  EXCEPT !.ctx.candidate = 0]

\* HsmAddNewAttribute: the context it leaves and its outputs; value is the
\* *valueszp bytes *valuepp points to, which lie in the context's attrval
HsmAddNewAttribute(c, cursor, flag) ==
    IF c.candidate = 0 THEN AddNothing(c)
    ELSE IF flag # "ATTR_ROOT" THEN AddNothing(c)
    ELSE IF cursor > 0 THEN AddNothing(c)
    ELSE IF c.attrval[OffVersion] = DMF_ATTR_FORMAT_1
            /\ msb_load(Peek(c.attrval, OffSitetag, 4), 4) # U64Zero
         THEN AddResult(SetGlobalOffline(AddFormat1(c)))
         ELSE AddResult(SetGlobalOffline(AddFormat0(c)))


---------------------------------------------------------------------------
(* The dump stream: one call per step *)

CodecIdle == [pc |-> "idle", src |-> U64Zero, length |-> 0,
              bytes |-> <<>>, value |-> U64Zero]

\* no call is remembered
NoCall == [op |-> "none"]
Idle == last.op = "none"

Bmaps ==
    [bmv_entries : {-1, 0, 1, 2}, bmv_offset : 0 .. MaxBmvOffset,
     bmv_block : {96}, bmv_length : {8}]

AttrNames == {DMF_ATTR_NAME, "SGI_DMI_OTHER"}
AttrFlags == {"ATTR_ROOT", "ATTR_SECURE"}
ValueSizes == {0, SizeofXFSattrvalue0 - 1, SizeofXFSattrvalue0, MIN_FORMAT1_ATTR_LEN}
ByteCounts == {0, 4096}

\* a bulkstat record that passes the three quick tests
LikelyStat(size) ==
    [bs_mode |-> "S_IFREG", bs_xflags |-> {"XFS_XFLAG_HASATTR"},
     bs_dmevmask |-> {"DM_EVENT_ATTRIBUTE", "DM_EVENT_READ"}, bs_size |-> size]

Fetched(v) == [error |-> 0, am_error |-> 0, value |-> v]

\* the attribute fetched by a call of HsmInitFileContext, <<>> if it got none
FetchedBy(calls) ==
    IF Len(calls) = 2 /\ calls[2].res.error = 0 /\ calls[2].res.am_error = 0
    THEN calls[2].res.value
    ELSE <<>>

Init ==
    /\ fsctx \in {HsmInitFsysContext(f) : f \in FsIds}
    /\ ctx \in {HsmAllocateFileContext(fsctx, g) : g \in Garbage}
    /\ fetched = <<>>
    /\ last = NoCall
    /\ repeat = FALSE
    /\ codec = CodecIdle

\* the caller has used the results of the last call and moves on
Return ==
    /\ ~Idle
    /\ last' = NoCall
    /\ repeat' = FALSE
    /\ UNCHANGED <<fsctx, ctx, fetched, codec>>

AllocateFileContext ==
    /\ Idle
    /\ \E g \in Garbage :
        /\ ctx' = HsmAllocateFileContext(fsctx, g)
        /\ fetched' = <<>>
        /\ last' = [op |-> "HsmAllocateFileContext"]
        /\ repeat' = FALSE
        /\ UNCHANGED <<fsctx, codec>>

\* the call is the first one remembered, or it has the inputs of the last
SameFile(statp, calls) ==
    \/ Idle
    \/ /\ last.op = "HsmInitFileContext"
       /\ last.statp = statp
       /\ last.calls = calls

\* the file the call is about: any file, or the file of the remembered call
\* with the answers the collaborators gave for it
StatsNow == IF Idle THEN Stats ELSE {last.statp}
HandleResultsNow ==
    IF ~Idle /\ Len(last.calls) >= 1 THEN {last.calls[1].res} ELSE HandleResults
AnswersNow(answers) ==
    IF ~Idle /\ Len(last.calls) >= 2 THEN {last.calls[2].res} ELSE answers

InitFileContextDone(statp, r) ==
    /\ SameFile(statp, r.calls)
    /\ ctx' = r.ctx
    /\ fetched' = FetchedBy(r.calls)
    /\ last' = [op |-> "HsmInitFileContext", statp |-> statp, before |-> ctx,
                calls |-> r.calls, ret |-> r.ret]
    /\ repeat' = ~Idle
    /\ UNCHANGED <<fsctx, codec>>

\* a collaborator's answer is drawn only when the routine calls it
InitFileContext(answers) ==
    /\ Idle \/ last.op = "HsmInitFileContext"
    /\ \E statp \in StatsNow :
        LET r0 == HsmInitFileContext(ctx, statp, 0, NotCalled)
        IN  IF r0.calls = <<>> THEN InitFileContextDone(statp, r0)
            ELSE \E hres \in HandleResultsNow :
                    LET r1 == HsmInitFileContext(ctx, statp, hres, NotCalled)
                    IN  IF Len(r1.calls) = 1 THEN InitFileContextDone(statp, r1)
                        ELSE \E fres \in AnswersNow(answers) :
                                InitFileContextDone(statp,
                                    HsmInitFileContext(ctx, statp, hres, fres))

EstimateFileSpace ==
    /\ Idle
    /\ \E statp \in Stats :
        LET r == HsmEstimateFileSpace(statp)
        IN  /\ last' = [op |-> "HsmEstimateFileSpace", statp |-> statp,
                        calls |-> r.calls, ret |-> r.ret, bytes |-> r.bytes]
            /\ repeat' = FALSE
            /\ UNCHANGED <<fsctx, ctx, fetched, codec>>

EstimateFileOffsetDone(statp, bytecount, r) ==
    /\ SameFile(statp, r.calls)
    /\ last' = [op |-> "HsmEstimateFileOffset", statp |-> statp,
                bytecount |-> bytecount, calls |-> r.calls, ret |-> r.ret,
                byteoffset |-> r.byteoffset]
    /\ repeat' = ~Idle
    /\ UNCHANGED <<fsctx, ctx, fetched, codec>>

EstimateFileOffset(answers) ==
    /\ Idle \/ last.op = "HsmInitFileContext"
    /\ \E statp \in StatsNow, bytecount \in ByteCounts, g \in Garbage :
        LET r0 == HsmEstimateFileOffset(fsctx, statp, bytecount, 0, NotCalled, g)
        IN  IF r0.calls = <<>> THEN EstimateFileOffsetDone(statp, bytecount, r0)
            ELSE \E hres \in HandleResultsNow :
                    LET r1 == HsmEstimateFileOffset(fsctx, statp, bytecount,
                                                    hres, NotCalled, g)
                    IN  IF Len(r1.calls) = 1
                        THEN EstimateFileOffsetDone(statp, bytecount, r1)
                        ELSE \E fres \in AnswersNow(answers) :
                                EstimateFileOffsetDone(statp, bytecount,
                                    HsmEstimateFileOffset(fsctx, statp, bytecount,
                                                          hres, fres, g))

ModifyInode ==
    /\ Idle
    /\ \E statp \in Stats :
        LET r == HsmModifyInode(ctx, statp)
        IN  /\ last' = [op |-> "HsmModifyInode", statp |-> statp,
                        ret |-> r.ret, out |-> r.statp]
            /\ repeat' = FALSE
            /\ UNCHANGED <<fsctx, ctx, fetched, codec>>

ModifyExtentMap ==
    /\ Idle
    /\ \E bmap \in Bmaps :
        LET r == HsmModifyExtentMap(ctx, bmap)
        IN  /\ last' = [op |-> "HsmModifyExtentMap", bmap |-> bmap,
                        ret |-> r.ret, out |-> r.bmap]
            /\ repeat' = FALSE
            /\ UNCHANGED <<fsctx, ctx, fetched, codec>>

FilterExistingAttribute ==
    \E namep \in AttrNames, valuesz \in ValueSizes, flag \in AttrFlags :
        LET r == HsmFilterExistingAttribute(ctx, namep, valuesz, flag)
        IN  /\ \/ Idle
               \/ /\ last.op = "HsmFilterExistingAttribute"
                  /\ last.namep = namep
                  /\ last.valuesz = valuesz
                  /\ last.flag = flag
            /\ last' = [op |-> "HsmFilterExistingAttribute", namep |-> namep,
                        valuesz |-> valuesz, flag |-> flag,
                        ret |-> r.ret, skip_entry |-> r.skip_entry]
            /\ repeat' = ~Idle
            /\ UNCHANGED <<fsctx, ctx, fetched, codec>>

AddNewAttribute ==
    \E cursor \in 0 .. MaxCursor, flag \in AttrFlags :
        LET r == HsmAddNewAttribute(ctx, cursor, flag)
        IN  /\ \/ Idle
               \/ /\ last.op = "HsmAddNewAttribute"
                  /\ last.cursor = cursor
                  /\ last.flag = flag
            /\ ctx' = r.ctx
            /\ last' = [op |-> "HsmAddNewAttribute", cursor |-> cursor,
                        flag |-> flag, before |-> ctx, ret |-> r.ret,
                        namepp |-> r.namepp, value |-> r.value,
                        valueszp |-> r.valueszp]
            /\ repeat' = ~Idle
            /\ UNCHANGED <<fsctx, fetched, codec>>

\* the attribute values of the files of the dumped filesystem
DumpedValues ==
    {SubSeq(FullAttr(FSYS_TYPE_XFS, DMF_ATTR_FORMAT_0, DMF_ST_OFFLINE, 0),
            1, SizeofXFSattrvalue0),
     SubSeq(FullAttr(FSYS_TYPE_XFS, DMF_ATTR_FORMAT_0, 5, 0),
            1, SizeofXFSattrvalue0),
     SubSeq(FullAttr(FSYS_TYPE_XFS, DMF_ATTR_FORMAT_1, DMF_ST_DUALSTATE, 9),
            1, MaxAttrLen),
     SubSeq(FullAttr(FSYS_TYPE_XFS, DMF_ATTR_FORMAT_1, DMF_ST_PARTIAL, 0),
            1, MIN_FORMAT1_ATTR_LEN),
     SubSeq(FullAttr(FSYS_TYPE_XFS, DMF_ATTR_FORMAT_1, DMF_ST_DUALSTATE, 9),
            1, MIN_FORMAT1_ATTR_LEN - 1),
     SubSeq(FullAttr(FSYS_TYPE_XFS, DMF_ATTR_FORMAT_0, DMF_ST_DUALSTATE, 0),
            1, SizeofXFSattrvalue0),
     SubSeq(FullAttr(FSYS_TYPE_XFS, DMF_ATTR_FORMAT_1, DMF_ST_UNMIGRATING, 9),
            1, MIN_FORMAT1_ATTR_LEN),
     SubSeq(FullAttr(FSYS_TYPE_XFS, DMF_ATTR_FORMAT_1, DMF_ST_OFFLINE, 0),
            1, MaxAttrLen),
     SubSeq(FullAttr(2, DMF_ATTR_FORMAT_0, DMF_ST_OFFLINE, 0),
            1, SizeofXFSattrvalue0),
     <<>>}

DumpedAnswers ==
    {a \in FetchAnswers : a.error # 0 \/ a.am_error # 0 \/ a.value \in DumpedValues}

Next ==
    \/ AllocateFileContext
    \/ InitFileContext(DumpedAnswers)
    \/ ModifyInode
    \/ ModifyExtentMap
    \/ FilterExistingAttribute
    \/ AddNewAttribute
    \/ Return

Spec == Init /\ [][Next]_vars


---------------------------------------------------------------------------
(* One file, any attribute: the routines that look at a file's bulkstat    *)
(* record and attribute, called on a context a previous file has left      *)

\* contexts as HsmAllocateFileContext or the previous file's
\* HsmInitFileContext leave them, with the attribute that was fetched
PriorContexts(fs) ==
    {[ctx |-> HsmAllocateFileContext(fs, g), fetched |-> <<>>] : g \in Garbage}
    \cup
    {[ctx |-> HsmInitFileContext(
                  HsmAllocateFileContext(fs, g), LikelyStat(513), 0, Fetched(v)).ctx,
      fetched |-> v] :
        g \in Garbage,
        v \in {SubSeq(FullAttr(FSYS_TYPE_XFS, DMF_ATTR_FORMAT_0, DMF_ST_OFFLINE, 0),
                      1, SizeofXFSattrvalue0),
               SubSeq(FullAttr(FSYS_TYPE_XFS, DMF_ATTR_FORMAT_1, DMF_ST_DUALSTATE, 9),
                      1, MaxAttrLen)}}

InitFile ==
    /\ fsctx \in {HsmInitFsysContext(f) : f \in FsIds}
    /\ \E p \in PriorContexts(fsctx) :
        /\ ctx = p.ctx
        /\ fetched = p.fetched
    /\ last = NoCall
    /\ repeat = FALSE
    /\ codec = CodecIdle

NextFile ==
    \/ InitFileContext(FetchAnswers)
    \/ EstimateFileSpace
    \/ EstimateFileOffset(FetchAnswers)

SpecFile == InitFile /\ [][NextFile]_vars

---------------------------------------------------------------------------
(* The codec on its own: msb_store into a buffer, msb_load from it *)

\* 64-bit values: each byte zero or a value that tells its position, and
\* the all-ones value
U64Values ==
    {[i \in 1 .. 8 |-> IF i \in S THEN 17 * i ELSE 0] : S \in SUBSET (1 .. 8)}
    \cup {[i \in 1 .. 8 |-> 255]}

InitCodec ==
    /\ fsctx = HsmInitFsysContext("fsidA")
    /\ ctx = HsmAllocateFileContext(fsctx, CHOOSE g \in Garbage : g.attrlen = 0)
    /\ fetched = <<>>
    /\ last = NoCall
    /\ repeat = FALSE
    /\ codec \in [pc : {"start"}, src : U64Values, length : 1 .. 8,
                  bytes : {<<>>}, value : {U64Zero}]

Store ==
    /\ codec.pc = "start"
    /\ codec' = [codec EXCEPT !.pc = "stored",
                              !.bytes = msb_store(codec.src, codec.length)]
    /\ UNCHANGED <<fsctx, ctx, fetched, last, repeat>>

Load ==
    /\ codec.pc = "stored"
    /\ codec' = [codec EXCEPT !.pc = "loaded",
                              !.value = msb_load(codec.bytes, codec.length)]
    /\ UNCHANGED <<fsctx, ctx, fetched, last, repeat>>

NextCodec == Store \/ Load

SpecCodec == InitCodec /\ [][NextCodec]_vars

---------------------------------------------------------------------------
(* Claims *)

\* the three quick tests on a bulkstat record
QuickTestsPass(statp) ==
    /\ statp.bs_mode = "S_IFREG"
    /\ "XFS_XFLAG_HASATTR" \in statp.bs_xflags
    /\ statp.bs_dmevmask \cap
         {"DM_EVENT_DESTROY", "DM_EVENT_READ", "DM_EVENT_WRITE", "DM_EVENT_TRUNCATE"}
         # {}

\* the conditions of C1 on a call's bulkstat record and collaborator answers
Qualifies(statp, calls) ==
    /\ QuickTestsPass(statp)
    /\ Len(calls) = 2
    /\ calls[1].fn = "dm_make_handle" /\ calls[1].res = 0
    /\ calls[2].fn = "attr_multi_by_handle"
    /\ calls[2].res.error = 0 /\ calls[2].res.am_error = 0
    /\ LET v == calls[2].res.value
           n == Len(v)
       IN  /\ n >= 4
           /\ v[1] = 1
           /\ (v[2] = 0 /\ n = 22) \/ (v[2] = 1 /\ n >= 48)
           /\ v[3] * 256 + v[4] \in {2, 3, 4, 6}

\* C1: after any HsmInitFileContext call, whatever the context held before,
\* candidate is 1 exactly when the file is a regular file with the
\* has-attributes bit and a DMF event bit, the handle was built, the fetch
\* succeeded, fsys is 1, the version and length fit (0 and 22, or 1 and at
\* least 48) and the state is 2, 3, 4 or 6; filesize is then bs_size; in
\* every other case candidate is 0; the call returns 0.
C1_Classify ==
    last.op = "HsmInitFileContext" =>
        /\ last.ret = 0
        /\ ctx.candidate \in {0, 1}
        /\ ctx.candidate = 1 <=> Qualifies(last.statp, last.calls)
        /\ Qualifies(last.statp, last.calls) => ctx.filesize = last.statp.bs_size

\* a context left Candidate by the previous file is classified for a file
\* that fails a quick test
C1_Witness ==
    /\ last.op = "HsmInitFileContext"
    /\ last.before.candidate = 1
    /\ ~QuickTestsPass(last.statp)
    /\ ctx.candidate = 0

\* C7: HsmInitFileContext calls no collaborator unless the three quick tests
\* pass; the first call is the handle build; the attribute fetch comes
\* second and only after a handle build that succeeded.
C7_CallOrder ==
    last.op = "HsmInitFileContext" =>
        /\ ~QuickTestsPass(last.statp) => last.calls = <<>>
        /\ Len(last.calls) <= 2
        /\ Len(last.calls) >= 1 => last.calls[1].fn = "dm_make_handle"
        /\ Len(last.calls) = 2 =>
              /\ last.calls[2].fn = "attr_multi_by_handle"
              /\ last.calls[1].res = 0
        /\ (Len(last.calls) >= 1 /\ last.calls[1].res # 0) => Len(last.calls) = 1

\* a file with attributes but no DMF event bit: nothing was called
C7_Witness ==
    /\ last.op = "HsmInitFileContext"
    /\ last.statp.bs_mode = "S_IFREG"
    /\ "XFS_XFLAG_HASATTR" \in last.statp.bs_xflags
    /\ last.statp.bs_dmevmask = {"DM_EVENT_ATTRIBUTE"}
    /\ last.calls = <<>>

\* C8: HsmEstimateFileOffset, called for the file and with the collaborator
\* answers of the HsmInitFileContext call just made on the stream's
\* context, returns 1 exactly when that context is a candidate, the offset
\* it writes is that context's filesize (the file's size) whatever byte
\* count is asked for, and otherwise it returns 0 and writes no offset.
C8_EstimateOffset ==
    (last.op = "HsmEstimateFileOffset" /\ repeat) =>
        /\ last.ret \in {0, 1}
        /\ last.ret = 1 <=> ctx.candidate = 1
        /\ last.ret = 1 =>
              /\ last.byteoffset = <<ctx.filesize>>
              /\ last.byteoffset = <<last.statp.bs_size>>
        /\ last.ret = 0 => last.byteoffset = <<>>

\* an estimate for a candidate of 513 bytes, asked for byte count 4096
C8_Witness ==
    /\ last.op = "HsmEstimateFileOffset"
    /\ repeat
    /\ ctx.candidate = 1
    /\ last.bytecount = 4096
    /\ last.byteoffset = <<513>>

\* C9: HsmEstimateFileSpace calls no collaborator; it returns 1 with *bytes
\* = 0 exactly when the three quick tests pass, and otherwise returns 0
\* without writing *bytes.
C9_EstimateSpace ==
    last.op = "HsmEstimateFileSpace" =>
        /\ last.calls = <<>>
        /\ last.ret \in {0, 1}
        /\ last.ret = 1 <=> QuickTestsPass(last.statp)
        /\ last.ret = 1 => last.bytes = <<0>>
        /\ last.ret = 0 => last.bytes = <<>>

\* a regular file with a DMF event bit but without the has-attributes bit
C9_Witness ==
    /\ last.op = "HsmEstimateFileSpace"
    /\ last.statp.bs_mode = "S_IFREG"
    /\ last.statp.bs_xflags = {}
    /\ "DM_EVENT_READ" \in last.statp.bs_dmevmask
    /\ last.ret = 0
    /\ last.bytes = <<>>

\* v mod 2^(8w): the low w bytes of v
LowBytes(v, w) == [i \in 1 .. 8 |-> IF i > 8 - w THEN v[i] ELSE 0]

\* the number a byte sequence of at most 3 bytes stands for, first byte
\* most significant
NumberOf(bytes) ==
    IF bytes = <<>> THEN 0
    ELSE LET n == Len(bytes)
         IN  (IF n >= 3 THEN bytes[n - 2] * 65536 ELSE 0)
             + (IF n >= 2 THEN bytes[n - 1] * 256 ELSE 0) + bytes[n]

\* C10: for every width w in 1..8, msb_load(msb_store(v, w), w) is v mod
\* 2^(8w), so it is v when v < 2^(8w); the stored bytes are the low w bytes
\* of v, most significant first.
C10_RoundTrip ==
    /\ codec.pc \in {"stored", "loaded"} =>
        /\ Len(codec.bytes) = codec.length
        /\ \A k \in 1 .. codec.length :
              codec.bytes[k] = codec.src[8 - codec.length + k]
        /\ codec.length <= 3 =>
              NumberOf(codec.bytes) =
                  NumberOf(SubSeq(codec.src, 6, 8)) % (256 ^ codec.length)
    /\ codec.pc = "loaded" =>
        /\ codec.value = LowBytes(codec.src, codec.length)
        /\ (\A i \in 1 .. 8 - codec.length : codec.src[i] = 0)
              => codec.value = codec.src

\* a value that does not fit in 3 bytes, stored and loaded back truncated
C10_Witness ==
    /\ codec.pc = "loaded"
    /\ codec.length = 3
    /\ codec.src = <<0, 0, 0, 0, 85, 102, 119, 136>>
    /\ codec.bytes = <<102, 119, 136>>
    /\ codec.value = <<0, 0, 0, 0, 0, 102, 119, 136>>

\* C2 as stated: HsmModifyExtentMap returns 1; with no entries or a context
\* that is no candidate the array is unchanged; otherwise, with remaining =
\* ceil(filesize / 512) - bmap[1].bmv_offset, a positive remaining leaves
\* one entry, a hole of that length at the unchanged offset, and any other
\* remaining leaves no entry; and a candidate with one entry at offset 0
\* always ends with one hole over the whole file.
ExtentMapRule ==
    LET in == last.bmap
        out == last.out
        remaining == ((ctx.filesize + 511) \div 512) - in.bmv_offset
    IN  /\ last.ret = 1
        /\ (in.bmv_entries <= 0 \/ ctx.candidate = 0) => out = in
        /\ (in.bmv_entries > 0 /\ ctx.candidate = 1 /\ remaining > 0) =>
              out = [in EXCEPT !.bmv_entries = 1, !.bmv_block = -1,
                               !.bmv_length = remaining]
        /\ (in.bmv_entries > 0 /\ ctx.candidate = 1 /\ remaining <= 0) =>
              out.bmv_entries = 0

WholeFileHole ==
    /\ last.out.bmv_entries = 1
    /\ last.out.bmv_block = -1
    /\ last.out.bmv_offset = 0
    /\ last.out.bmv_length = (ctx.filesize + 511) \div 512

C2_Original ==
    last.op = "HsmModifyExtentMap" =>
        /\ ExtentMapRule
        /\ (ctx.candidate = 1 /\ last.bmap.bmv_entries = 1
                /\ last.bmap.bmv_offset = 0) => WholeFileHole

\* C2: as stated, except that a candidate with one entry at offset 0 ends
\* with one hole over the whole file only if filesize > 0; with filesize =
\* 0 it ends with no entry.
C2_ExtentMap ==
    last.op = "HsmModifyExtentMap" =>
        /\ ExtentMapRule
        /\ (ctx.candidate = 1 /\ last.bmap.bmv_entries = 1
                /\ last.bmap.bmv_offset = 0) =>
              IF ctx.filesize > 0 THEN WholeFileHole
              ELSE last.out.bmv_entries = 0

\* a candidate of 513 bytes, one entry reported at offset 0: one hole of 2
\* blocks
C2_Witness ==
    /\ last.op = "HsmModifyExtentMap"
    /\ ctx.candidate = 1
    /\ ctx.filesize = 513
    /\ last.bmap.bmv_entries = 1
    /\ last.bmap.bmv_offset = 0
    /\ last.out.bmv_entries = 1
    /\ last.out.bmv_block = -1
    /\ last.out.bmv_length = 2

\* the fetched attribute is format 1 and carries a non-zero site tag
Format1WithSiteTag(v) ==
    /\ Len(v) >= 26
    /\ v[2] = 1
    /\ SubSeq(v, 23, 26) # <<0, 0, 0, 0>>

\* C3: for a candidate, HsmAddNewAttribute with ATTR_ROOT and cursor 0
\* returns the name SGI_DMI_DMFATTR and a value whose global state is 3.  If
\* the attribute the last HsmInitFileContext fetched is format 1 with a
\* non-zero site tag, the value has 48 bytes, version 1, region count 1 and
\* one region: offset 0, size filesize, state 3, flags 7, flag bits 0.
\* Otherwise it has 22 bytes and version 0.  fsys, flags and bfid are the
\* bytes that were fetched.
C3_AddedValue ==
    (/\ last.op = "HsmAddNewAttribute"
     /\ last.before.candidate = 1
     /\ last.flag = "ATTR_ROOT"
     /\ last.cursor = 0) =>
        LET v == last.value
        IN  /\ last.ret = 1
            /\ last.namepp = "SGI_DMI_DMFATTR"
            /\ last.valueszp = <<Len(v)>>
            /\ Len(fetched) >= 22
            /\ Len(v) >= 22
            /\ SubSeq(v, 3, 4) = <<0, 3>>
            /\ v[1] = fetched[1]
            /\ SubSeq(v, 5, 22) = SubSeq(fetched, 5, 22)
            /\ IF Format1WithSiteTag(fetched)
               THEN /\ Len(v) = 48
                    /\ v[2] = 1
                    /\ SubSeq(v, 23, 26) = SubSeq(fetched, 23, 26)
                    /\ SubSeq(v, 27, 28) = <<0, 1>>
                    /\ SubSeq(v, 29, 36) = <<0, 0, 0, 0, 0, 0, 0, 0>>
                    /\ SubSeq(v, 37, 40) = <<0, 0, 0, 0>>
                    /\ v[41] * 16777216 + v[42] * 65536 + v[43] * 256 + v[44]
                          = ctx.filesize
                    /\ SubSeq(v, 45, 46) = <<0, 3>>
                    /\ v[47] = 7
                    /\ v[48] = 0
               ELSE /\ Len(v) = 22
                    /\ v[2] = 0

\* a dual-state format-1 attribute with a site tag and a second region was
\* fetched for a file of 513 bytes
C3_Witness ==
    /\ last.op = "HsmAddNewAttribute"
    /\ last.before.candidate = 1
    /\ last.flag = "ATTR_ROOT"
    /\ last.cursor = 0
    /\ Len(fetched) > 48
    /\ Format1WithSiteTag(fetched)
    /\ SubSeq(fetched, 3, 4) = <<0, 2>>
    /\ ctx.filesize = 513
    /\ last.valueszp = <<48>>

\* C4: HsmFilterExistingAttribute returns 1 with *skip_entry = 0 if the
\* context is no candidate, the flag is not ATTR_ROOT or the name is not
\* SGI_DMI_DMFATTR; otherwise it returns 0 with *skip_entry = 0 if valuesz <
\* 22, and 1 with *skip_entry = 1 if valuesz >= 22.  It never returns 0
\* with *skip_entry = 1.
C4_Filter ==
    last.op = "HsmFilterExistingAttribute" =>
        LET managed == /\ ctx.candidate = 1
                       /\ last.flag = "ATTR_ROOT"
                       /\ last.namep = "SGI_DMI_DMFATTR"
        IN  /\ ~managed => (last.ret = 1 /\ last.skip_entry = 0)
            /\ (managed /\ last.valuesz < 22) =>
                  (last.ret = 0 /\ last.skip_entry = 0)
            /\ (managed /\ last.valuesz >= 22) =>
                  (last.ret = 1 /\ last.skip_entry = 1)
            /\ ~(last.ret = 0 /\ last.skip_entry = 1)

\* the managed attribute of a candidate is reported with 21 bytes
C4_Witness ==
    /\ last.op = "HsmFilterExistingAttribute"
    /\ ctx.candidate = 1
    /\ last.flag = "ATTR_ROOT"
    /\ last.namep = "SGI_DMI_DMFATTR"
    /\ last.valuesz = 21
    /\ last.ret = 0

\* C5: HsmAddNewAttribute returns 1 with *namepp = NULL if the context is
\* no candidate, the flag is not ATTR_ROOT or cursor > 0, and then leaves
\* attrval and attrlen as they were.
C5_NothingToAdd ==
    (/\ last.op = "HsmAddNewAttribute"
     /\ \/ last.before.candidate = 0
        \/ last.flag # "ATTR_ROOT"
        \/ last.cursor > 0) =>
        /\ last.ret = 1
        /\ last.namepp = "NULL"
        /\ ctx.attrval = last.before.attrval
        /\ ctx.attrlen = last.before.attrlen

\* cursor 1 on a candidate, in the root section
C5_Witness ==
    /\ last.op = "HsmAddNewAttribute"
    /\ last.before.candidate = 1
    /\ last.flag = "ATTR_ROOT"
    /\ last.cursor = 1
    /\ last.namepp = "NULL"

\* C6: a call repeated with the inputs of the call before it gives what
\* that call gave: HsmInitFileContext leaves the same candidate and
\* filesize; HsmFilterExistingAttribute returns the same value and
\* *skip_entry; HsmAddNewAttribute returns the same value, name, value bytes
\* and value size, although the first call rewrote attrval.
C6_Idempotent ==
    [][(repeat' /\ last'.op = last.op) =>
         /\ last.op = "HsmInitFileContext" =>
               /\ ctx'.candidate = ctx.candidate
               /\ ctx'.filesize = ctx.filesize
               /\ last'.ret = last.ret
         /\ last.op = "HsmFilterExistingAttribute" =>
               /\ last'.ret = last.ret
               /\ last'.skip_entry = last.skip_entry
         /\ last.op = "HsmAddNewAttribute" =>
               /\ last'.ret = last.ret
               /\ last'.namepp = last.namepp
               /\ last'.value = last.value
               /\ last'.valueszp = last.valueszp]_vars

\* HsmAddNewAttribute has been repeated on a context whose fetched
\* attribute, longer than one region, the first call had rewritten
C6_Witness ==
    /\ last.op = "HsmAddNewAttribute"
    /\ repeat
    /\ last.namepp = "SGI_DMI_DMFATTR"
    /\ Len(fetched) > 48
    /\ SubSeq(ctx.attrval, 1, Len(fetched)) # fetched
    /\ last.before.attrlen = 48

\* the routines that use a classified context
FrameOps ==
    {"HsmModifyInode", "HsmModifyExtentMap",
     "HsmFilterExistingAttribute", "HsmAddNewAttribute"}

\* C11: a call of HsmModifyInode, HsmModifyExtentMap,
\* HsmFilterExistingAttribute or HsmAddNewAttribute, with any arguments and
\* whether or not it repeats the call before it, leaves candidate, filesize
\* and the copied filesystem context of the file context as they were, so
\* across any sequence of such calls they keep what the most recent
\* HsmInitFileContext left.
C11_Frame ==
    [][last'.op \in FrameOps =>
         /\ ctx'.candidate = ctx.candidate
         /\ ctx'.filesize = ctx.filesize
         /\ ctx'.fsys = ctx.fsys]_vars

\* HsmAddNewAttribute has rewritten the attribute of a Candidate context,
\* changing its length, and the context is still Candidate
C11_Witness ==
    /\ last.op = "HsmAddNewAttribute"
    /\ last.namepp = DMF_ATTR_NAME
    /\ last.before.candidate = 1
    /\ last.before.attrlen # ctx.attrlen
    /\ last.before.attrval # ctx.attrval
    /\ ctx.candidate = 1
    /\ ctx.filesize = last.before.filesize

\* the call of HsmInitFileContext got an attribute from attr_multi_by_handle
GotAttribute(calls) ==
    /\ Len(calls) = 2
    /\ calls[2].res.error = 0
    /\ calls[2].res.am_error = 0

=============================================================================
